---------------------------- MODULE Spec2Model ----------------------------
(***************************************************************************)
(* Model of the RSS aggregation pipeline of src/rss_parser.py (RSSParser): *)
(* _clean_text, _fetch_feed, get_latest_news, get_news_by_category and     *)
(* get_esteghlal_news.                                                     *)
(*                                                                         *)
(* Text is a sequence of characters, one TLA+ string per character.        *)
(* Persian letters are written by their names ("alef", "sin", ...), the    *)
(* Arabic yeh and kaf that _clean_text rewrites are "yeh_ar" and "kaf_ar", *)
(* the Persian forms are "yeh" and "kaf".                                  *)
(***************************************************************************)
EXTENDS Integers, Sequences, FiniteSets, TLC

VARIABLES
    pc,         \* position of the running public operation
    op,         \* the public operation called: "latest", "category", "esteghlal"
    category,   \* get_news_by_category's category argument
    limit,      \* the limit argument
    task,       \* per source: state of its _fetch_feed task
    response,   \* per source: what the network and feedparser produced
    results,    \* per source: the list _fetch_feed returned to gather
    completed,  \* the sources in the order their fetches completed
    merged,     \* all_news as the merge loop left it, before any sort
    ret,        \* the list the public operation returned
    raised,     \* TRUE when the public operation propagated an exception
    ctIn,       \* _clean_text: the argument
    ctOut,      \* _clean_text: the value returned for ctIn
    ctOut2,     \* _clean_text: the value returned for ctOut
    ctPc,       \* _clean_text driver: "in", "once", "twice"
    fdIn,       \* _format_date: the argument
    fdOut,      \* _format_date: the value returned
    fdRaised,   \* _format_date: TRUE when an exception left it
    fdPc,       \* _format_date driver: "in", "done"
    user_data,  \* bot: context.user_data, index of full_news_<idx> -> link
    shown,      \* bot: the news lists displayed so far, one per latest_news
    pressed,    \* bot: the displayed message whose button was pressed last
    reply       \* bot: what the last full_news callback did

aggVars == <<pc, op, category, limit, task, response, results, completed,
             merged, ret, raised>>
ctVars == <<ctIn, ctOut, ctOut2, ctPc>>
fdVars == <<fdIn, fdOut, fdRaised, fdPc>>
botVars == <<user_data, shown, pressed, reply>>
vars == <<aggVars, ctVars, fdVars, botVars>>

---------------------------------------------------------------------------
(* Bounds of the model *)

\* longest text given to _clean_text
MaxLen == 6
\* largest limit argument
MaxLimit == 2
\* longest feed document built from every combination of CoreEntries
MaxEntries == 2
\* longest news list get_esteghlal_news hands to the bot
MaxNews == 2
\* latest_news callbacks in one session
MaxCalls == 2

---------------------------------------------------------------------------
(* Sequence helpers: Python slices and str methods *)

MinOf(S) == CHOOSE m \in S : \A n \in S : m <= n

\* s[:n] for n >= 0
Take(s, n) == SubSeq(s, 1, IF n < Len(s) THEN n ELSE Len(s))

\* s[n:] counted from 1: the elements from position n on
Drop(s, n) == SubSeq(s, n, Len(s))

RECURSIVE Concat(_)
Concat(ss) == IF ss = <<>> THEN <<>> ELSE Head(ss) \o Concat(Tail(ss))

\* kw in text (substring test)
Contains(text, kw) ==
    \E i \in 0..(Len(text) - Len(kw)) : SubSeq(text, i + 1, i + Len(kw)) = kw

LowerChar(c) ==
    CASE c = "V" -> "v"
      [] c = "A" -> "a"
      [] c = "R" -> "r"
      [] OTHER -> c

\* str.lower()
Lower(text) == [i \in 1..Len(text) |-> LowerChar(text[i])]

---------------------------------------------------------------------------
(* _clean_text *)

Whitespace == {" ", "\n"}

\* The end of the match of '<[^<]+?>' that starts at the head of s, 0 when
\* there is none: '<', then one or more characters other than '<' (as few
\* as possible), then '>'.
TagEnd(s) ==
    LET ends == {j \in 3..Len(s) :
                    /\ s[j] = ">"
                    /\ \A k \in 2..(j - 1) : s[k] # "<"}
    IN  IF s # <<>> /\ s[1] = "<" /\ ends # {} THEN MinOf(ends) ELSE 0

\* re.sub('<[^<]+?>', '', text): leftmost, non-overlapping matches removed
RECURSIVE StripTags(_)
StripTags(s) ==
    IF s = <<>> THEN <<>>
    ELSE IF TagEnd(s) # 0 THEN StripTags(Drop(s, TagEnd(s) + 1))
    ELSE <<Head(s)>> \o StripTags(Tail(s))

NormChar(c) ==
    CASE c = "yeh_ar" -> "yeh"
      [] c = "kaf_ar" -> "kaf"
      [] OTHER -> c

\* text.replace(yeh_ar, yeh).replace(kaf_ar, kaf)
NormalizePersian(s) == [i \in 1..Len(s) |-> NormChar(s[i])]

\* text.split(): the maximal runs of non-whitespace characters
RECURSIVE SplitWords(_, _)
SplitWords(s, cur) ==
    IF s = <<>> THEN (IF cur = <<>> THEN <<>> ELSE <<cur>>)
    ELSE IF Head(s) \in Whitespace
         THEN (IF cur = <<>> THEN <<>> ELSE <<cur>>) \o SplitWords(Tail(s), <<>>)
         ELSE SplitWords(Tail(s), Append(cur, Head(s)))

\* ' '.join(words)
RECURSIVE JoinWords(_)
JoinWords(ws) ==
    IF ws = <<>> THEN <<>>
    ELSE IF Len(ws) = 1 THEN Head(ws)
    ELSE Head(ws) \o <<" ">> \o JoinWords(Tail(ws))

RECURSIVE LStrip(_)
LStrip(s) == IF s # <<>> /\ Head(s) \in Whitespace THEN LStrip(Tail(s)) ELSE s

RECURSIVE RStrip(_)
RStrip(s) ==
    IF s # <<>> /\ s[Len(s)] \in Whitespace THEN RStrip(SubSeq(s, 1, Len(s) - 1))
    ELSE s

\* str.strip()
Strip(s) == LStrip(RStrip(s))

CleanText(text) ==
    IF text = <<>> THEN <<>>
    ELSE Strip(JoinWords(SplitWords(NormalizePersian(StripTags(text)), <<>>)))

---------------------------------------------------------------------------
(* Configuration: RSSParser.__init__ *)

\* rss_feeds in iteration order; the model keeps the first two of the five
\* configured feeds.
SourceOrder == <<"varzesh3", "tarafdari">>
Sources == {SourceOrder[i] : i \in 1..Len(SourceOrder)}

Esteghlal == <<"alef", "sin", "te", "qaf", "lam", "alef", "lam">>
Basketball == <<"be", "sin", "kaf", "te", "be", "alef", "lam">>
Meydani == <<"mim", "yeh", "dal", "alef", "nun", "yeh">>

Categories == {"football", "basketball", "wrestling", "volleyball", "athletics"}

\* category_keywords
CategoryKeywords(c) ==
    CASE c = "football" ->
            << <<"fe", "vav", "te", "be", "alef", "lam">>,
               <<"pe", "re", "sin", "pe", "vav", "lam", "yeh", "sin">>,
               Esteghlal,
               <<"te", "yeh", "mim", " ", "mim", "lam", "yeh">>,
               <<"lam", "yeh", "gaf", " ", "be", "re", "te", "re">>,
               <<"jim", "alef", "mim", " ", "jim", "he", "alef", "nun", "yeh">> >>
      [] c = "basketball" ->
            << Basketball,
               <<"sin", "vav", "pe", "re", "lam", "yeh", "gaf", " ">> \o Basketball >>
      [] c = "wrestling" ->
            << <<"kaf", "shin", "te", "yeh">>,
               <<"re", "ze", "mim", "yeh">>,
               <<"jim", "vav", "dal", "vav">>,
               <<"kaf", "alef", "re", "alef", "te", "he">>,
               <<"te", "kaf", "vav", "alef", "nun", "dal", "vav">> >>
      [] c = "volleyball" ->
            << <<"vav", "alef", "lam", "yeh", "be", "alef", "lam">>,
               <<"sin", "alef", "yeh", "pe", "alef">>,
               <<"kaf", "alef", "lam", "alef", "yeh", " ",
                 "khe", "vav", "dal", "re", "vav">> >>
      [] c = "athletics" ->
            << <<"dal", "vav", " ", "vav", " ">> \o Meydani,
               <<"dal", "vav">> \o Meydani,
               <<"dal", "vav", "vav">> \o Meydani,
               <<"alef", "lam", "mim", "pe", "yeh", "kaf">> >>

\* the keyword get_esteghlal_news looks for
EsteghlalKeywords == <<Esteghlal>>

\* entries taken from one feed: feed.entries[:10]
PerSourceLimit == 10

\* get_news_by_category asks get_latest_news for limit * 3 items
LimitFactor == 3

---------------------------------------------------------------------------
(* Feed entries as feedparser hands them to _fetch_feed.  An entry is a    *)
(* record holding only the keys the feed provided; entry.get(k, d) is      *)
(* EntryGet.  published_parsed is a time (a larger number is later), or    *)
(* PyNone when the feed gave a date feedparser could not parse.            *)

EntryGet(e, k, d) == IF k \in DOMAIN e THEN e[k] ELSE d

\* None
PyNone == 0 - 1

\* datetime.min.timetuple(): earlier than every time a feed can carry
MinTime == 0

\* the default title
NoTitle == <<"be", "dal", "vav", "nun", " ", "ain", "nun", "vav", "alef", "nun">>

\* a title that is not a str: re.sub raises TypeError on it
NotAString == <<"#notstr">>

TitleWin == Esteghlal \o <<" ", "be", "re", "dal">>
TitleVAR == <<"V", "A", "R">>
TitleTag == <<"<", "b", ">">>
SummaryEsteghlal == <<"<", "b", ">">> \o Esteghlal \o <<"<", "/", "b", ">", "\n">>
SummaryFootball == <<"fe", "vav", "te", "be", "alef", "lam">>

EWin == [title |-> TitleWin, link |-> "l1", published_parsed |-> 2]
EDesc == [title |-> TitleVAR, summary |-> SummaryEsteghlal, link |-> "l2",
          published_parsed |-> 1]
EPlain == [title |-> TitleVAR, link |-> "l3", published_parsed |-> 2]
EBadDate == [title |-> TitleWin, link |-> "l4", published_parsed |-> PyNone]
ENoDate == [description |-> SummaryFootball, link |-> "l5"]
EEmptyTitle == [title |-> TitleTag, link |-> "l6", published_parsed |-> 1]
ENoLink == [title |-> TitleWin, published_parsed |-> 2]
ERaises == [title |-> NotAString, link |-> "l8", published_parsed |-> 1]

CoreEntries == {EWin, EDesc, EPlain, ENoDate}

RECURSIVE FeedsOfLen(_)
FeedsOfLen(n) ==
    IF n = 0 THEN {<<>>}
    ELSE {Append(f, e) : f \in FeedsOfLen(n - 1), e \in CoreEntries}

Rep(e, n) == [i \in 1..n |-> e]

\* feeds with an unparseable date, feeds with entries that are skipped, and
\* feeds longer than PerSourceLimit
SpecialFeeds ==
    { <<EBadDate>>,
      <<EBadDate, EWin>>,
      <<EPlain, EBadDate, EBadDate>>,
      <<EEmptyTitle, EWin>>,
      <<EWin, ENoLink, EDesc>>,
      <<ERaises, EPlain>>,
      <<ERaises, ENoLink, EEmptyTitle>>,
      Rep(EPlain, PerSourceLimit) \o <<EWin>>,
      <<EEmptyTitle>> \o Rep(EWin, PerSourceLimit) }

Feeds == UNION {FeedsOfLen(n) : n \in 0..MaxEntries} \cup SpecialFeeds

NoResponse == [kind |-> "none", status |-> 0, entries |-> <<>>]

\* a 200 response whose body parses to the entries of feed
Ok(feed) == [kind |-> "http", status |-> 200, entries |-> feed]

\* a response with another status, the timeout, any other exception
Failures ==
    {[kind |-> "http", status |-> 500, entries |-> <<>>],
     [kind |-> "timeout", status |-> 0, entries |-> <<>>],
     [kind |-> "exception", status |-> 0, entries |-> <<>>]}

\* what a fetch can end with
Responses == {Ok(f) : f \in Feeds} \cup Failures

---------------------------------------------------------------------------
(* _fetch_feed *)

\* building the news_item dict raises
BuildRaises(e) ==
    \/ EntryGet(e, "title", NoTitle) = NotAString
    \/ EntryGet(e, "summary", EntryGet(e, "description", <<>>)) = NotAString

\* the news_item dict (the display string 'published' plays no part in
\* merging, filtering or sorting and is left out)
NewsItem(e, source) ==
    [title |-> CleanText(EntryGet(e, "title", NoTitle)),
     description |-> CleanText(EntryGet(e, "summary", EntryGet(e, "description", <<>>))),
     link |-> EntryGet(e, "link", ""),
     published_parsed |-> EntryGet(e, "published_parsed", MinTime),
     source |-> source]

\* ParseEntries with `break` where the code has `continue`
RECURSIVE ParseEntriesAbort(_, _)
ParseEntriesAbort(entries, source) ==
    IF entries = <<>> THEN <<>>
    ELSE LET e == Head(entries)
             news_item == NewsItem(e, source)
         IN  IF BuildRaises(e) THEN <<>>
             ELSE IF news_item.title = <<>> \/ news_item.link = "" THEN <<>>
             ELSE <<news_item>> \o ParseEntriesAbort(Tail(entries), source)

\* the loop over feed.entries[:10]
RECURSIVE ParseEntries(_, _)
ParseEntries(entries, source) ==
    IF entries = <<>> THEN <<>>
    ELSE LET e == Head(entries)
             rest == ParseEntries(Tail(entries), source)
             news_item == NewsItem(e, source)
         IN  IF BuildRaises(e) THEN rest
             ELSE IF news_item.title = <<>> \/ news_item.link = "" THEN rest
             ELSE <<news_item>> \o rest

FetchFeed(source, resp) ==
    IF resp.kind = "timeout" THEN <<>>
    ELSE IF resp.kind = "exception" THEN <<>>
    ELSE IF resp.status # 200 THEN <<>>
    ELSE ParseEntries(Take(resp.entries, PerSourceLimit), source)

---------------------------------------------------------------------------
(* The public operations.  An operation's outcome is a record: exc says    *)
(* whether an exception left it, val is the list it returned.              *)

\* the loop run over the results in the order the fetches completed, as
\* asyncio.as_completed would hand them over
MergeAsCompleted(res) == Concat([i \in 1..Len(completed) |-> res[completed[i]]])

\* the loop over gather's results, which come in the order of the tasks
MergeResults(res) == Concat([i \in 1..Len(SourceOrder) |-> res[SourceOrder[i]]])

\* list.sort compares the keys: None against anything is a TypeError
SortRaises(items) ==
    /\ Len(items) >= 2
    /\ \E i \in 1..Len(items) : items[i].published_parsed = PyNone

\* x inserted behind every element whose key is not smaller
RECURSIVE InsertDesc(_, _)
InsertDesc(sorted, x) ==
    IF sorted = <<>> THEN <<x>>
    ELSE IF Head(sorted).published_parsed >= x.published_parsed
         THEN <<Head(sorted)>> \o InsertDesc(Tail(sorted), x)
         ELSE <<x>> \o sorted

\* list.sort(key=published_parsed, reverse=True): stable, newest first
RECURSIVE SortDesc(_)
SortDesc(items) ==
    IF items = <<>> THEN <<>>
    ELSE InsertDesc(SortDesc(SubSeq(items, 1, Len(items) - 1)), items[Len(items)])

\* any(keyword in title or keyword in description for keyword in keywords)
Matches(item, keywords) ==
    \E k \in 1..Len(keywords) :
        \/ Contains(Lower(item.title), keywords[k])
        \/ Contains(Lower(item.description), keywords[k])

\* FilterLoop without its `break`
RECURSIVE FilterLoopNoBreak(_, _, _, _)
FilterLoopNoBreak(items, keywords, lim, acc) ==
    IF items = <<>> THEN acc
    ELSE FilterLoopNoBreak(Tail(items), keywords, lim,
                           IF Matches(Head(items), keywords)
                           THEN Append(acc, Head(items)) ELSE acc)

\* for news_item in items: append on a match, break once lim are collected
RECURSIVE FilterLoop(_, _, _, _)
FilterLoop(items, keywords, lim, acc) ==
    IF items = <<>> THEN acc
    ELSE LET acc2 == IF Matches(Head(items), keywords)
                     THEN Append(acc, Head(items)) ELSE acc
         IN  IF Len(acc2) >= lim THEN acc2
             ELSE FilterLoop(Tail(items), keywords, lim, acc2)

\* Try without the handler: the exception leaves the operation
TryReraise(outcome) == outcome

\* except Exception: log and return []
Try(outcome) == IF outcome.exc THEN [exc |-> FALSE, val |-> <<>>] ELSE outcome

LatestBody(res, lim) ==
    LET all_news == MergeResults(res)
    IN  IF SortRaises(all_news) THEN [exc |-> TRUE, val |-> <<>>]
        ELSE [exc |-> FALSE, val |-> Take(SortDesc(all_news), lim)]

GetLatestNews(res, lim) == Try(LatestBody(res, lim))

\* CategoryBody returning all_news unsliced for an unknown category
CategoryBodyUnsliced(res, cat, lim) ==
    LET inner == GetLatestNews(res, lim * LimitFactor)
    IN  IF inner.exc THEN [exc |-> TRUE, val |-> <<>>]
        ELSE IF cat \notin Categories
             THEN [exc |-> FALSE, val |-> inner.val]
             ELSE [exc |-> FALSE,
                   val |-> FilterLoop(inner.val, CategoryKeywords(cat), lim, <<>>)]

CategoryBody(res, cat, lim) ==
    LET inner == GetLatestNews(res, lim * LimitFactor)
    IN  IF inner.exc THEN [exc |-> TRUE, val |-> <<>>]
        ELSE IF cat \notin Categories
             THEN [exc |-> FALSE, val |-> Take(inner.val, lim)]
             ELSE [exc |-> FALSE,
                   val |-> FilterLoop(inner.val, CategoryKeywords(cat), lim, <<>>)]

GetNewsByCategory(res, cat, lim) == Try(CategoryBody(res, cat, lim))

EsteghlalBody(res, lim) ==
    LET all_news == MergeResults(res)
        esteghlal_news == FilterLoop(all_news, EsteghlalKeywords, lim, <<>>)
    IN  IF SortRaises(esteghlal_news) THEN [exc |-> TRUE, val |-> <<>>]
        ELSE [exc |-> FALSE, val |-> Take(SortDesc(esteghlal_news), lim)]

GetEsteghlalNews(res, lim) == Try(EsteghlalBody(res, lim))

---------------------------------------------------------------------------
(* One call of a public operation *)

Limits == 1..MaxLimit
CategoryArgs == {"football", "weather"}

\* the parts of the state a specification does not exercise
CtIdle == ctIn = <<>> /\ ctOut = <<>> /\ ctOut2 = <<>> /\ ctPc = "in"
FdIdle == fdIn = <<>> /\ fdOut = <<>> /\ fdRaised = FALSE /\ fdPc = "in"
BotIdle ==
    /\ user_data = <<>>
    /\ shown = <<>>
    /\ pressed = [call |-> 0, idx |-> 0]
    /\ reply = [kind |-> "none", url |-> ""]

Init ==
    /\ pc = "idle"
    /\ op = "none"
    /\ category = "none"
    /\ limit = 0
    /\ task = [s \in Sources |-> "none"]
    /\ response = [s \in Sources |-> NoResponse]
    /\ results = [s \in Sources |-> <<>>]
    /\ completed = <<>>
    /\ merged = <<>>
    /\ ret = <<>>
    /\ raised = FALSE
    /\ CtIdle
    /\ FdIdle
    /\ BotIdle

\* one _fetch_feed coroutine per source, all handed to asyncio.gather
CreateTasks == [s \in Sources |-> "scheduled"]

\* the call runs up to `await asyncio.gather(...)` without yielding
Call(o, c, l) ==
    /\ pc = "idle"
    /\ pc' = "gather"
    /\ op' = o
    /\ category' = c
    /\ limit' = l
    /\ task' = CreateTasks
    /\ UNCHANGED <<response, results, completed, merged, ret, raised>>
    /\ UNCHANGED <<ctVars, fdVars, botVars>>

CallLatest == \E l \in Limits : Call("latest", "none", l)
CallCategory == \E c \in CategoryArgs, l \in Limits : Call("category", c, l)
CallEsteghlal == \E l \in Limits : Call("esteghlal", "none", l)

\* the event loop runs the task up to `session.get(...)`
TaskStart(s) ==
    /\ task[s] = "scheduled"
    /\ task' = [task EXCEPT ![s] = "fetching"]
    /\ UNCHANGED <<pc, op, category, limit, response, results, completed,
                   merged, ret, raised>>
    /\ UNCHANGED <<ctVars, fdVars, botVars>>

\* the request ends (a response, the 10 s timeout or an exception) and
\* _fetch_feed runs to its return
FetchComplete(s) ==
    /\ task[s] = "fetching"
    /\ \E r \in Responses :
          /\ response' = [response EXCEPT ![s] = r]
          /\ results' = [results EXCEPT ![s] = FetchFeed(s, r)]
    /\ task' = [task EXCEPT ![s] = "done"]
    /\ completed' = Append(completed, s)
    /\ UNCHANGED <<pc, op, category, limit, merged, ret, raised>>
    /\ UNCHANGED <<ctVars, fdVars, botVars>>

\* GatherReady resuming at the first finished task
GatherReadyAny(t) == \E s \in Sources : t[s] = "done"

\* gather resumes the caller once every task has finished
GatherReady(t) == \A s \in Sources : t[s] = "done"

Outcome(o, res, c, l) ==
    CASE o = "latest" -> GetLatestNews(res, l)
      [] o = "category" -> GetNewsByCategory(res, c, l)
      [] o = "esteghlal" -> GetEsteghlalNews(res, l)

\* from gather's return to the operation's return
GatherReturn ==
    /\ pc = "gather"
    /\ GatherReady(task)
    /\ pc' = "done"
    /\ LET outcome == Outcome(op, results, category, limit)
       IN  /\ ret' = outcome.val
           /\ raised' = outcome.exc
    /\ merged' = MergeResults(results)
    /\ UNCHANGED <<op, category, limit, task, response, results, completed>>
    /\ UNCHANGED <<ctVars, fdVars, botVars>>

Next ==
    \/ CallLatest
    \/ CallCategory
    \/ CallEsteghlal
    \/ \E s \in Sources : TaskStart(s)
    \/ \E s \in Sources : FetchComplete(s)
    \/ GatherReturn

Spec == Init /\ [][Next]_vars

\* The same call over fewer feed documents, for the properties of scheduling,
\* which do not depend on what a feed holds.
LiveResponses == {Ok(<<>>), Ok(<<EWin>>), Ok(<<EBadDate, EWin>>)} \cup Failures

FetchCompleteLive(s) ==
    /\ task[s] = "fetching"
    /\ \E r \in LiveResponses :
          /\ response' = [response EXCEPT ![s] = r]
          /\ results' = [results EXCEPT ![s] = FetchFeed(s, r)]
    /\ task' = [task EXCEPT ![s] = "done"]
    /\ completed' = Append(completed, s)
    /\ UNCHANGED <<pc, op, category, limit, merged, ret, raised>>
    /\ UNCHANGED <<ctVars, fdVars, botVars>>

NextLive ==
    \/ CallLatest
    \/ CallCategory
    \/ CallEsteghlal
    \/ \E s \in Sources : TaskStart(s)
    \/ \E s \in Sources : FetchCompleteLive(s)
    \/ GatherReturn

\* The event loop runs every scheduled task, every request ends (with a
\* response, an exception or its 10 s timeout), and a caller whose gather is
\* complete is resumed.
\* GatherReturn seen through pc alone: the step that resumes the caller
GatherResume == pc = "gather" /\ GatherReady(task) /\ pc' = "done"

Fairness ==
    /\ \A s \in Sources : WF_vars(TaskStart(s))
    /\ \A s \in Sources : WF_vars(FetchCompleteLive(s))
    /\ WF_pc(GatherResume)

SpecLive == Init /\ [][NextLive]_vars /\ Fairness

---------------------------------------------------------------------------
(* Vocabulary of the properties *)

Done(o) == pc = "done" /\ op = o

\* the fetch of s ended with a 200 response
Survived(s) == response[s].kind = "http" /\ response[s].status = 200

Smaller(a, b) == IF a < b THEN a ELSE b

\* the items gather received from the surviving sources, in task order
SurvivingItems ==
    Concat([i \in 1..Len(SourceOrder) |->
               IF Survived(SourceOrder[i]) THEN results[SourceOrder[i]] ELSE <<>>])

\* the sort key the specification gives an item: the minimum when the date
\* is missing or unparseable
ClaimKey(x) == IF x.published_parsed = PyNone THEN MinTime ELSE x.published_parsed

Dated(x) == x.published_parsed # PyNone /\ x.published_parsed # MinTime

\* items ordered newest first, equal keys in their order in items
NewestFirst(items) ==
    LET n == Len(items)
        rank(i) == 1 + Cardinality({j \in 1..n :
                        \/ ClaimKey(items[j]) > ClaimKey(items[i])
                        \/ ClaimKey(items[j]) = ClaimKey(items[i]) /\ j < i})
    IN  [p \in 1..n |-> items[CHOOSE i \in 1..n : rank(i) = p]]

IsNewestFirst(items) ==
    \A i, j \in 1..Len(items) : i < j => ClaimKey(items[i]) >= ClaimKey(items[j])

MatchesEsteghlal(x) == Matches(x, EsteghlalKeywords)

\* the first limit items of the merged list that name Esteghlal
FirstEsteghlal == Take(SelectSeq(MergeResults(results), MatchesEsteghlal), limit)

WithKey(items, k) ==
    LET HasKey(x) == x.published_parsed = k IN SelectSeq(items, HasKey)

KeysOf(items) == {items[i].published_parsed : i \in 1..Len(items)}

---------------------------------------------------------------------------
(* C1: whichever sources fail, get_latest_news returns without raising,    *)
(* and returns exactly the first limit items of the surviving sources'     *)
(* merged items ordered newest first.                                      *)
C1_FailureIsolation ==
    Done("latest") =>
        /\ ~raised
        /\ ret = Take(NewestFirst(SurvivingItems), limit)

(* C2: an item whose date is missing or unparseable comes after every      *)
(* dated item in the output of get_latest_news and get_esteghlal_news, and *)
(* its presence drops no item.                                             *)
C2_UndatedSortLast ==
    /\ (Done("latest") \/ Done("esteghlal")) =>
          \A i, j \in 1..Len(ret) : (i < j /\ Dated(ret[j])) => Dated(ret[i])
    /\ Done("latest") =>
          Len(ret) = Smaller(limit, Len(MergeResults(results)))
    /\ Done("esteghlal") => Len(ret) = Len(FirstEsteghlal)

\* the half of C2 that the code keeps: an item with no date at all
C2_MissingDateSortsLast ==
    ((Done("latest") \/ Done("esteghlal"))
        /\ \A s \in Sources : PyNone \notin KeysOf(results[s])) =>
            /\ \A i, j \in 1..Len(ret) : (i < j /\ Dated(ret[j])) => Dated(ret[i])
            /\ Done("latest") => Len(ret) = Smaller(limit, Len(MergeResults(results)))
            /\ Done("esteghlal") => Len(ret) = Len(FirstEsteghlal)

(* C3: no public operation propagates an exception, and each returns the   *)
(* empty list when no source delivered an item.                            *)
C3_NeverRaises ==
    pc = "done" =>
        /\ ~raised
        /\ (\A s \in Sources : results[s] = <<>>) => ret = <<>>

C3_Witness ==
    /\ pc = "done"
    /\ \A s \in Sources : ~Survived(s)
    /\ \E s \in Sources : response[s].kind = "timeout"
    /\ ret = <<>>

\* a sort that raised inside the operation and was caught
C3_WitnessCaught ==
    /\ pc = "done"
    /\ SortRaises(MergeResults(results))
    /\ ret = <<>>

(* C4: for a category that is no key of category_keywords,                 *)
(* get_news_by_category(category, limit) returns what                      *)
(* get_latest_news(limit) returns on the same fetch results.               *)
C4_UnknownCategory ==
    (Done("category") /\ category \notin Categories) =>
        ret = GetLatestNews(results, limit).val

C4_Witness ==
    /\ Done("category")
    /\ category \notin Categories
    /\ Len(MergeResults(results)) > limit
    /\ Len(ret) = limit

(* C5: for a recognized category, get_news_by_category returns the first   *)
(* min(limit, m) of the m items of get_latest_news(3 * limit) that hold a  *)
(* keyword of the category in title or description, in their order: at     *)
(* most limit items, each matching, newest first.                          *)
C5_CategoryFilter ==
    (Done("category") /\ category \in Categories) =>
        LET latest == GetLatestNews(results, 3 * limit).val
            InCategory(x) == Matches(x, CategoryKeywords(category))
        IN  /\ ret = Take(SelectSeq(latest, InCategory), limit)
            /\ Len(ret) <= limit
            /\ \A i \in 1..Len(ret) : InCategory(ret[i])
            /\ IsNewestFirst(ret)

C5_Witness ==
    /\ Done("category")
    /\ category = "football"
    /\ LET latest == GetLatestNews(results, 3 * limit).val
           InCategory(x) == Matches(x, CategoryKeywords(category))
       IN  /\ Len(SelectSeq(latest, InCategory)) > limit
           /\ ~InCategory(latest[1])
    /\ Len(ret) = limit

(* C6: get_esteghlal_news returns the first min(limit, m) items of the     *)
(* unsorted merged list that name Esteghlal, ordered newest first.         *)
C6_EsteghlalFilterThenSort ==
    Done("esteghlal") =>
        /\ ret = NewestFirst(FirstEsteghlal)
        /\ Len(ret) <= limit
        /\ \A i \in 1..Len(ret) : MatchesEsteghlal(ret[i])
        /\ IsNewestFirst(ret)

(* C7: the sort of get_latest_news and get_esteghlal_news is stable: the   *)
(* items that share a published_parsed all appear in the untruncated       *)
(* output, in the order they had in the list that was sorted.              *)
C7_StableSort ==
    /\ (Done("latest") /\ limit >= Len(MergeResults(results))) =>
          \A k \in KeysOf(MergeResults(results)) :
              WithKey(ret, k) = WithKey(MergeResults(results), k)
    /\ Done("esteghlal") =>
          \A k \in KeysOf(FirstEsteghlal) : WithKey(ret, k) = WithKey(FirstEsteghlal, k)

(* C8: every item an operation returns has a non-empty title and link; an  *)
(* entry without them, or one whose item cannot be built, is skipped, and  *)
(* every other entry among the first 10 of its feed is kept.               *)
C8_ValidItems ==
    /\ pc = "done" =>
          \A i \in 1..Len(ret) : ret[i].title # <<>> /\ ret[i].link # ""
    /\ \A s \in Sources :
          (pc = "done" /\ Survived(s)) =>
              LET Kept(e) == /\ ~BuildRaises(e)
                             /\ CleanText(EntryGet(e, "title", NoTitle)) # <<>>
                             /\ EntryGet(e, "link", "") # ""
                  kept == SelectSeq(Take(response[s].entries, 10), Kept)
              IN  results[s] = [i \in 1..Len(kept) |-> NewsItem(kept[i], s)]

C8_Witness ==
    /\ pc = "done"
    /\ ret # <<>>
    /\ \E s \in Sources :
          /\ response[s].entries = <<ERaises, ENoLink, EEmptyTitle>>
    /\ \E s \in Sources :
          /\ response[s].entries = <<EWin, ENoLink, EDesc>>
          /\ Len(results[s]) = 2

(* C9: every source's fetch task exists before the operation waits, the   *)
(* merge happens only after all of them have finished, a fetch that hangs  *)
(* until its timeout keeps no sibling from starting or completing, and the *)
(* operation eventually returns.                                           *)
C9_FanOutState ==
    /\ pc = "gather" => \A s \in Sources : task[s] # "none"
    /\ pc = "done" => \A s \in Sources : task[s] = "done"
    /\ \A s \in Sources : task[s] = "scheduled" => ENABLED TaskStart(s)
    /\ \A s \in Sources : task[s] = "fetching" => ENABLED FetchCompleteLive(s)

C9_Concurrency == []C9_FanOutState /\ (pc = "gather" ~> pc = "done")

\* one fetch still hangs while its sibling has completed with items
C9_Witness ==
    /\ pc = "gather"
    /\ \E s, t \in Sources :
          /\ task[s] = "fetching"
          /\ task[t] = "done"
          /\ results[t] # <<>>

---------------------------------------------------------------------------
(* Driver of _clean_text: a text, cleaned once, cleaned again *)

CleanAlphabet == {"<", ">", "b", " ", "yeh_ar"}

RECURSIVE TextsOfLen(_)
TextsOfLen(n) ==
    IF n = 0 THEN {<<>>}
    ELSE {Append(t, c) : t \in TextsOfLen(n - 1), c \in CleanAlphabet}

\* every text of at most n characters
TextsUpTo(n) == UNION {TextsOfLen(k) : k \in 0..n}

AggIdle ==
    /\ pc = "idle"
    /\ op = "none"
    /\ category = "none"
    /\ limit = 0
    /\ task = [s \in Sources |-> "none"]
    /\ response = [s \in Sources |-> NoResponse]
    /\ results = [s \in Sources |-> <<>>]
    /\ completed = <<>>
    /\ merged = <<>>
    /\ ret = <<>>
    /\ raised = FALSE

InitClean ==
    /\ AggIdle
    /\ ctIn \in TextsUpTo(MaxLen)
    /\ ctOut = <<>>
    /\ ctOut2 = <<>>
    /\ ctPc = "in"
    /\ FdIdle
    /\ BotIdle

CleanOnce ==
    /\ ctPc = "in"
    /\ ctOut' = CleanText(ctIn)
    /\ ctPc' = "once"
    /\ UNCHANGED <<ctIn, ctOut2>>
    /\ UNCHANGED <<aggVars, fdVars, botVars>>

CleanTwice ==
    /\ ctPc = "once"
    /\ ctOut2' = CleanText(ctOut)
    /\ ctPc' = "twice"
    /\ UNCHANGED <<ctIn, ctOut>>
    /\ UNCHANGED <<aggVars, fdVars, botVars>>

NextClean == CleanOnce \/ CleanTwice

SpecClean == InitClean /\ [][NextClean]_vars

---------------------------------------------------------------------------
(* C10: _clean_text is idempotent: cleaning a cleaned text, nested or      *)
(* unbalanced '<' and '>' included, returns it unchanged.                  *)
C10_Idempotent == ctPc = "twice" => ctOut2 = ctOut

Brackets == {"<", ">"}

HasBracket(t) == \E i \in 1..Len(t) : t[i] \in Brackets

HasDoubleSpace(t) == \E i \in 1..(Len(t) - 1) : t[i] = " " /\ t[i + 1] = " "

\* no run of two spaces, no whitespace at either end
Trimmed(t) ==
    /\ ~HasDoubleSpace(t)
    /\ t # <<>> => (t[1] \notin Whitespace /\ t[Len(t)] \notin Whitespace)

(* C11: the result of _clean_text holds no '<' and no '>', no run of two   *)
(* or more spaces, and no whitespace at its start or end.                  *)
C11_NoBracketsNoRuns ==
    ctPc # "in" => (~HasBracket(ctOut) /\ Trimmed(ctOut))

---------------------------------------------------------------------------
(* _format_date: a date string is the sequence of its tokens, the spaces
   between them left out; Persian words are named in Latin letters *)

DateUnknown == <<"tarikh", "namoshakhas">>

persian_months ==
    <<"zhanviyeh", "fevriyeh", "mars", "april", "meh", "zhuan",
      "zhuiyeh", "agust", "septambr", "oktobr", "novambr", "desambr">>

\* int() of the numerals that occur in the date strings of the model
NumeralValue ==
    ("0" :> 0) @@ ("00" :> 0) @@ ("1" :> 1) @@ ("02" :> 2) @@ ("05" :> 5) @@
    ("9" :> 9) @@ ("23" :> 23) @@ ("24" :> 24) @@ ("29" :> 29) @@
    ("31" :> 31) @@ ("32" :> 32) @@ ("59" :> 59) @@ ("60" :> 60) @@
    ("2024" :> 2024) @@ ("2026" :> 2026)

MonthNumber ==
    ("Jan" :> 1) @@ ("Feb" :> 2) @@ ("Mar" :> 3) @@ ("Apr" :> 4) @@
    ("May" :> 5) @@ ("Jun" :> 6) @@ ("Jul" :> 7) @@ ("Aug" :> 8) @@
    ("Sep" :> 9) @@ ("Oct" :> 10) @@ ("Nov" :> 11) @@ ("Dec" :> 12)

DayNames == {"Mon,", "Tue,", "Wed,", "Thu,", "Fri,", "Sat,", "Sun,"}

IsLeap(y) == (y % 4 = 0 /\ y % 100 # 0) \/ y % 400 = 0

DaysIn(m, y) ==
    IF m = 2 THEN (IF IsLeap(y) THEN 29 ELSE 28)
    ELSE IF m \in {4, 6, 9, 11} THEN 30
    ELSE 31

\* a two-digit year is read as 1969..2068
FullYear(y) == IF y >= 100 THEN y ELSE IF y > 68 THEN 1900 + y ELSE 2000 + y

\* parsedate_to_datetime: an optional day name, then day, month name, year,
\* hour ':' minute; anything else, or a field out of range, raises
ParseDate(date_str) ==
    LET t == IF date_str # <<>> /\ Head(date_str) \in DayNames
             THEN Tail(date_str) ELSE date_str
        Bad == [raises |-> TRUE, day |-> 0, month |-> 0, year |-> 0,
                hour |-> 0, minute |-> 0]
    IN  IF \/ Len(t) # 6
           \/ t[1] \notin DOMAIN NumeralValue
           \/ t[2] \notin DOMAIN MonthNumber
           \/ t[3] \notin DOMAIN NumeralValue
           \/ t[4] \notin DOMAIN NumeralValue
           \/ t[5] # ":"
           \/ t[6] \notin DOMAIN NumeralValue
        THEN Bad
        ELSE LET dt == [raises |-> FALSE,
                        day |-> NumeralValue[t[1]],
                        month |-> MonthNumber[t[2]],
                        year |-> FullYear(NumeralValue[t[3]]),
                        hour |-> NumeralValue[t[4]],
                        minute |-> NumeralValue[t[6]]]
             IN  IF /\ dt.day \in 1..DaysIn(dt.month, dt.year)
                    /\ dt.hour \in 0..23
                    /\ dt.minute \in 0..59
                 THEN dt ELSE Bad

\* list[i] with a 0-based index raises IndexError outside the list
IndexRaises(list, i) == i >= Len(list) \/ i < 0 - Len(list)
PyIndex(list, i) == IF i >= 0 THEN list[i + 1] ELSE list[Len(list) + i + 1]

\* f"{n:02d}"
Pad2(n) == IF n < 10 THEN "0" \o ToString(n) ELSE ToString(n)

\* f"{persian_date} - {persian_time}" with the month name at index i
PersianDisplay(dt, i) ==
    <<ToString(dt.day), PyIndex(persian_months, i), ToString(dt.year),
      "-", Pad2(dt.hour), ":", Pad2(dt.minute)>>

\* the inner try: [exc, returned, val]; returned is FALSE when the block
\* ends without a return statement
ParseAndFormat(date_str, offset) ==
    LET dt == ParseDate(date_str)
    IN  IF dt.raises \/ IndexRaises(persian_months, dt.month - offset)
        THEN [exc |-> TRUE, returned |-> FALSE, val |-> <<>>]
        ELSE [exc |-> FALSE, returned |-> TRUE,
              val |-> PersianDisplay(dt, dt.month - offset)]

\* `except: pass` around the inner try, then `return date_str`
FormatBody(date_str, offset) ==
    IF date_str = <<>> THEN [exc |-> FALSE, val |-> DateUnknown]
    ELSE LET inner == ParseAndFormat(date_str, offset)
         IN  IF ~inner.exc /\ inner.returned
             THEN [exc |-> FALSE, val |-> inner.val]
             ELSE [exc |-> FALSE, val |-> date_str]

\* _format_date indexing persian_months with dt.month
FormatDateMonthIndex(date_str) == FormatBody(date_str, 0)

\* the outer `except Exception` returns the sentinel
FormatDate(date_str) ==
    LET body == FormatBody(date_str, 1)
    IN  IF body.exc THEN [exc |-> FALSE, val |-> DateUnknown] ELSE body

---------------------------------------------------------------------------
(* _format_date applied to one date string *)

DayTokens == {"1", "02", "29", "31", "32"}
MonthTokens == {"Jan", "Feb", "Nov", "Dec", "Foo"}
YearTokens == {"2024", "2026", "24"}
HourTokens == {"00", "9", "23", "24"}
MinuteTokens == {"05", "59", "60"}

DateStrings ==
    LET Plain == {<<d, m, y, h, ":", mi>> :
                     d \in DayTokens, m \in MonthTokens, y \in YearTokens,
                     h \in HourTokens, mi \in MinuteTokens}
    IN  Plain
        \cup {<<"Mon,">> \o p : p \in {q \in Plain : q[4] = "9"}}
        \cup {Take(p, 3) : p \in {q \in Plain : q[4] = "9" /\ q[6] = "05"}}
        \cup {<<>>, <<"garbage">>, <<"2026-11-02T10:05">>, <<"Mon,">>}

InitDate ==
    /\ AggIdle
    /\ CtIdle
    /\ BotIdle
    /\ fdIn \in DateStrings
    /\ fdOut = <<>>
    /\ fdRaised = FALSE
    /\ fdPc = "in"

FormatOnce ==
    /\ fdPc = "in"
    /\ fdPc' = "done"
    /\ LET r == FormatDate(fdIn)
       IN  /\ fdOut' = r.val
           /\ fdRaised' = r.exc
    /\ UNCHANGED fdIn
    /\ UNCHANGED <<aggVars, ctVars, botVars>>

NextDate == FormatOnce

SpecDate == InitDate /\ [][NextDate]_vars

\* the datetime an input parses to, as the claims speak of it
Parseable(date_str) == ~ParseDate(date_str).raises
MonthOf(date_str) == ParseDate(date_str).month

(* C12: _format_date never raises; the empty input gives the 'date
   unknown' sentinel, a non-empty input that cannot be parsed comes back
   unchanged, and a parseable input gives day, month name, year, '-',
   HH:MM, the month name being entry month-1 of the 12-entry table, an
   index that is always in range. *)
C12_FormatDate ==
    fdPc = "done" =>
        /\ ~fdRaised
        /\ fdIn = <<>> => fdOut = DateUnknown
        /\ (fdIn # <<>> /\ ~Parseable(fdIn)) => fdOut = fdIn
        /\ Parseable(fdIn) =>
              /\ Len(persian_months) = 12
              /\ MonthOf(fdIn) - 1 \in 0..11
              /\ Len(fdOut) = 7
              /\ fdOut[1] = ToString(ParseDate(fdIn).day)
              /\ fdOut[2] = persian_months[(MonthOf(fdIn) - 1) + 1]
              /\ fdOut[3] = ToString(ParseDate(fdIn).year)
              /\ fdOut[4] = "-"
              /\ fdOut[5] = Pad2(ParseDate(fdIn).hour)
              /\ fdOut[6] = ":"
              /\ fdOut[7] = Pad2(ParseDate(fdIn).minute)

\* a December date with a one-digit day and hour and a two-digit year
C12_Witness ==
    /\ fdPc = "done"
    /\ fdIn = <<"1", "Dec", "24", "9", ":", "05">>
    /\ fdOut = <<"1", "desambr", "2024", "-", "09", ":", "05">>

---------------------------------------------------------------------------
(* The merged list and the order of completion *)

\* the lists the fetches returned, laid end to end in the given order
ItemsInOrder(order) == Concat([i \in 1..Len(order) |-> results[order[i]]])

(* C13: the merged list, before any sort, holds the items in the order in
   which the fetches of the sources completed (so that two runs with the
   same per-source results and different completion orders can differ). *)
C13_CompletionOrder == pc = "done" => merged = ItemsInOrder(completed)

(* C13, amended: the merged list, before any sort, holds the items in the
   order of the sources in rss_feeds, which is the order of the tasks
   given to asyncio.gather, whatever the order in which the fetches
   completed; it is a function of the per-source results alone. *)
C13_TaskOrder == pc = "done" => merged = ItemsInOrder(SourceOrder)

\* the last source of rss_feeds completed first and both returned items
C13_Witness ==
    /\ pc = "done"
    /\ completed[1] = SourceOrder[Len(SourceOrder)]
    /\ \A s \in Sources : results[s] # <<>>
    /\ merged # ItemsInOrder(completed)
    /\ merged[1].source = SourceOrder[1]

---------------------------------------------------------------------------
(* The bot: one user's session of latest_news and full_news_<idx>
   callbacks.  A news item is its link; key full_news_<idx> of user_data
   is the index idx, and the keys in use are always 1..n, so user_data is
   a sequence. *)

Links == {"link_a", "link_b"}
NoLink == ""

RECURSIVE NewsOfLen(_)
NewsOfLen(n) ==
    IF n = 0 THEN {<<>>}
    ELSE {Append(l, k) : l \in NewsOfLen(n - 1), k \in Links}

\* what get_esteghlal_news() can return: items that all carry a link
NewsLists == UNION {NewsOfLen(n) : n \in 0..MaxNews}

Larger(a, b) == IF a > b THEN a ELSE b

\* context.user_data[f"full_news_{idx}"] = news["link"] for idx in 1..n
StoreLinks(data, news_list, n) ==
    [idx \in 1..Larger(Len(data), n) |->
        IF idx <= n THEN news_list[idx] ELSE data[idx]]

\* context.user_data.get(key)
UserDataGet(data, idx) == IF idx \in DOMAIN data THEN data[idx] ELSE NoLink

\* latest_news_handler; sent is the number of messages reply_text delivered,
\* fewer than the list holds when a reply_text raised
LatestNews(news_list, sent) ==
    /\ Len(shown) < MaxCalls
    /\ sent \in 0..Len(news_list)
    /\ LET stored == IF sent < Len(news_list) THEN sent + 1 ELSE sent
       IN  user_data' = StoreLinks(user_data, news_list, stored)
    /\ shown' = Append(shown, Take(news_list, sent))
    /\ pressed' = [call |-> 0, idx |-> 0]
    /\ reply' = [kind |-> IF news_list = <<>> THEN "no_news"
                          ELSE IF sent < Len(news_list) THEN "error"
                          ELSE "news",
                 url |-> NoLink]
    /\ UNCHANGED <<aggVars, ctVars, fdVars>>

\* full_news_handler for callback data full_news_<idx>
FullNews(idx) ==
    /\ LET url == UserDataGet(user_data, idx)
       IN  reply' = IF url = NoLink
                    THEN [kind |-> "not_found", url |-> NoLink]
                    ELSE [kind |-> "article", url |-> url]
    /\ UNCHANGED <<user_data, shown>>
    /\ UNCHANGED <<aggVars, ctVars, fdVars>>

\* the user presses the button under message idx of the call-th response
PressButton(call, idx) ==
    /\ call \in 1..Len(shown)
    /\ idx \in 1..Len(shown[call])
    /\ pressed' = [call |-> call, idx |-> idx]
    /\ FullNews(idx)

\* the user presses a button left in the chat by an earlier run of the
\* bot, whose user_data is gone
PressOldButton(idx) ==
    /\ pressed' = [call |-> 0, idx |-> idx]
    /\ FullNews(idx)

InitBot ==
    /\ AggIdle
    /\ CtIdle
    /\ FdIdle
    /\ BotIdle

NextBot ==
    \/ \E news_list \in NewsLists, sent \in 0..MaxNews :
          LatestNews(news_list, sent)
    \/ \E call \in 1..MaxCalls, idx \in 1..MaxNews : PressButton(call, idx)
    \/ \E idx \in 1..MaxNews : PressOldButton(idx)

SpecBot == InitBot /\ [][NextBot]_vars

\* the last callback was a press of a button under a displayed message
PressedShown == pressed.call # 0

\* the link shown in the message whose button was pressed
PressedLink == shown[pressed.call][pressed.idx]

(* C14: pressing the 'full text' button of a displayed news message
   fetches the article whose link that message shows, also after a later
   latest_news response with different or fewer items; a full_news_<idx>
   callback with no stored link replies 'link not found' and fetches
   nothing. *)
C14_ButtonFetchesOwnLink ==
    /\ PressedShown => (reply.kind = "article" /\ reply.url = PressedLink)
    /\ (pressed.idx # 0 /\ UserDataGet(user_data, pressed.idx) = NoLink) =>
          (reply.kind = "not_found" /\ reply.url = NoLink)

=============================================================================
